---- MODULE Spec2Model ----
(***************************************************************************)
(* Model of the movie theater read API:                                    *)
(*   src/src/routes/movies.py   get_movie_list, get_movie_by_id            *)
(*   src/src/schemas/movies.py  MovieBaseSchema, MovieDetailResponseSchema,*)
(*                              MovieListResponseSchema                    *)
(* The record store (the movies table) is chosen at Init and is only read. *)
(* The wall clock (datetime.now().year) advances by the Tick action.       *)
(* An optional value (Optional[str], an omitted query parameter, the row   *)
(* returned by .first()) is a sequence of length 0 or 1; an absent link is *)
(* the empty sequence.                                                     *)
(***************************************************************************)
EXTENDS Integers, Sequences, FiniteSets, TLC

VARIABLES store, current_year, req, resp, queries

vars == <<store, current_year, req, resp, queries>>

(***************************************************************************)
(* Bounds of the model.                                                    *)
(***************************************************************************)
MaxStore == 3
MaxPage == 3
MaxTicks == 1
Year0 == 2026

(***************************************************************************)
(* Program constants.                                                      *)
(***************************************************************************)
PageDefault == 1
PageMin == 1
PerPageDefault == 10
PerPageMin == 1
PerPageMax == 20
NameMaxLen == 255
GenreMaxLen == 255
OrigTitleMaxLen == 255
StatusMaxLen == 50
OrigLangMaxLen == 50
CountryMaxLen == 3

None == <<>>

Min(a, b) == IF a < b THEN a ELSE b

RECURSIVE Repeat(_, _)
Repeat(s, n) == IF n = 0 THEN "" ELSE s \o Repeat(s, n - 1)

(***************************************************************************)
(* Stored rows.  ExampleMovie is the example row of the schema; the other  *)
(* rows differ from it in the fields the validator constrains.             *)
(***************************************************************************)
ExampleMovie ==
    [ name       |-> "Creed III",
      date       |-> [year |-> Year0, month |-> 3, day |-> 2],
      score      |-> 73,
      genre      |-> "Drama,Action",
      overview   |-> "After dominating the boxing world...",
      crew       |-> "Michael B. Jordan, Tessa Thompson",
      orig_title |-> "Creed III",
      status     |-> "Released",
      orig_lang  |-> "English",
      budget     |-> 75000000,
      revenue    |-> 271616668,
      country    |-> "AU" ]

FarFutureMovie ==
    [ExampleMovie EXCEPT !.name = "Far future", !.country = "USA",
                         !.date = [year |-> Year0 + 2, month |-> 1, day |-> 1]]

LongCountryMovie ==
    [ExampleMovie EXCEPT !.name = "Long country", !.country = "USAA"]

BrokenMovie ==
    [ExampleMovie EXCEPT !.name = Repeat("x", NameMaxLen + 1), !.budget = -1]

RowContents == {ExampleMovie, FarFutureMovie, LongCountryMovie, BrokenMovie}

WithId(m, i) == [f \in DOMAIN m \cup {"id"} |-> IF f = "id" THEN i ELSE m[f]]

\* The identifier of the i-th row in primary-key order: the row that had
\* identifier 1 was deleted, so identifiers and positions differ.
RowId(i) == i + 1

\* The tables the program can read: at most MaxStore rows in primary-key order.
Stores ==
    UNION { { [i \in 1 .. n |-> WithId(c[i], RowId(i))] : c \in [1 .. n -> RowContents] } :
                n \in 0 .. MaxStore }

(***************************************************************************)
(* schemas/movies.py                                                       *)
(***************************************************************************)

\* Bug: the year after the current one is rejected too.
validate_date_strict(value, now_year) == ~ (value.year >= now_year + 1)

\* validate_date: TRUE when the value is returned, FALSE when ValueError is raised.
validate_date(value, now_year) == ~ (value.year > now_year + 1)

max_length(s, n) == Len(s) <= n

ge(x, n) == x >= n

\* Bug: exactly three characters required.
country_ok_exact(s) == Len(s) = CountryMaxLen

country_ok(s) == max_length(s, CountryMaxLen)

FieldOrder ==
    << "name", "date", "score", "genre", "overview", "crew", "orig_title",
       "status", "orig_lang", "budget", "revenue", "country", "id" >>

FieldOk(f, movie, now_year) ==
    CASE f = "name"       -> max_length(movie.name, NameMaxLen)
      [] f = "date"       -> validate_date(movie.date, now_year)
      [] f = "score"      -> ge(movie.score, 0)
      [] f = "genre"      -> max_length(movie.genre, GenreMaxLen)
      [] f = "orig_title" -> max_length(movie.orig_title, OrigTitleMaxLen)
      [] f = "status"     -> max_length(movie.status, StatusMaxLen)
      [] f = "orig_lang"  -> max_length(movie.orig_lang, OrigLangMaxLen)
      [] f = "budget"     -> ge(movie.budget, 0)
      [] f = "revenue"    -> ge(movie.revenue, 0)
      [] f = "country"    -> country_ok(movie.country)
      [] OTHER            -> TRUE

\* The fields that fail, in declaration order (pydantic reports all of them).
FieldErrors(movie, now_year) ==
    SelectSeq(FieldOrder, LAMBDA f : ~ FieldOk(f, movie, now_year))

\* from_attributes: the schema object is built from the declared fields of the row.
FromAttributes(movie) ==
    [f \in { FieldOrder[i] : i \in DOMAIN FieldOrder } |-> movie[f]]

\* MovieDetailResponseSchema.model_validate
model_validate(movie, now_year) ==
    LET errs == FieldErrors(movie, now_year)
    IN  IF errs = << >>
        THEN [ok |-> TRUE, value |-> FromAttributes(movie), errors |-> errs]
        ELSE [ok |-> FALSE, errors |-> errs]

(***************************************************************************)
(* The record store queries issued through the session.                    *)
(***************************************************************************)
query_count(db) == Len(db)

\* Bug: one row more than the limit.
query_offset_limit_extra(db, offset, limit) ==
    SubSeq(db, offset + 1, Min(offset + limit + 1, Len(db)))

query_offset_limit(db, offset, limit) ==
    SubSeq(db, offset + 1, Min(offset + limit, Len(db)))

\* Bug: the first row whose identifier is not below the one asked for.
query_filter_first_atleast(db, movie_id) ==
    LET hits == SelectSeq(db, LAMBDA m : m.id >= movie_id)
    IN  IF hits = << >> THEN None ELSE << Head(hits) >>

query_filter_first(db, movie_id) ==
    LET hits == SelectSeq(db, LAMBDA m : m.id = movie_id)
    IN  IF hits = << >> THEN None ELSE << Head(hits) >>

(***************************************************************************)
(* routes/movies.py                                                        *)
(***************************************************************************)
Digits == << "0", "1", "2", "3", "4", "5", "6", "7", "8", "9" >>

RECURSIVE IntToStr(_)
IntToStr(n) ==
    IF n < 0 THEN << "-" >> \o IntToStr(-n)
    ELSE IF n < 10 THEN << Digits[n + 1] >>
    ELSE IntToStr(n \div 10) \o << Digits[(n % 10) + 1] >>

\* f"/theater/movies/?page={page}&per_page={per_page}"
PageLink(page, per_page) ==
    << "/theater/movies/?page=" >> \o IntToStr(page) \o << "&per_page=" >> \o IntToStr(per_page)

\* Bug: the offset of the page after the one asked for.
Offset_nextpage(page, per_page) == page * per_page

Offset(page, per_page) == (page - 1) * per_page

\* Bug: floor instead of ceiling.
TotalPages_floor(total_items, per_page) == total_items \div per_page

\* Bug: one page too many when per_page divides total_items.
TotalPages_plusone(total_items, per_page) == total_items \div per_page + 1

TotalPages(total_items, per_page) == (total_items + per_page - 1) \div per_page

PrevPage(page, per_page) ==
    IF page > 1 THEN PageLink(page - 1, per_page) ELSE None

\* Bug: a next link on the last page too.
NextPage_onlast(page, per_page, total_pages) ==
    IF page <= total_pages THEN PageLink(page + 1, per_page) ELSE None

NextPage(page, per_page, total_pages) ==
    IF page < total_pages THEN PageLink(page + 1, per_page) ELSE None

\* Query(default, ge=..., le=...): the value used, and whether it is accepted.
QueryValue(q, default) == IF q = None THEN default ELSE q[1]

PageOk(page) == page >= PageMin

\* Bug: lt=20 instead of le=20.
PerPageOk_lt(per_page) == per_page >= PerPageMin /\ per_page < PerPageMax

PerPageOk(per_page) == per_page >= PerPageMin /\ per_page <= PerPageMax

QueryErrors(page, per_page) ==
    (IF PageOk(page) THEN << >> ELSE << "page" >>)
        \o (IF PerPageOk(per_page) THEN << >> ELSE << "per_page" >>)

RECURSIVE ValidateAll_skip(_, _)
\* Bug: a row that fails validation is left out of the page.
ValidateAll_skip(movies, now_year) ==
    IF movies = << >> THEN [ok |-> TRUE, value |-> << >>]
    ELSE LET v    == model_validate(Head(movies), now_year)
             rest == ValidateAll_skip(Tail(movies), now_year)
         IN  [ok |-> TRUE, value |-> (IF v.ok THEN << v.value >> ELSE << >>) \o rest.value]

RECURSIVE ValidateAll(_, _)
\* [MovieDetailResponseSchema.model_validate(movie) for movie in movies]:
\* the first row that fails raises, and nothing is returned.
ValidateAll(movies, now_year) ==
    IF movies = << >> THEN [ok |-> TRUE, value |-> << >>]
    ELSE LET v == model_validate(Head(movies), now_year)
         IN  IF ~ v.ok THEN [ok |-> FALSE, errors |-> v.errors]
             ELSE LET rest == ValidateAll(Tail(movies), now_year)
                  IN  IF ~ rest.ok THEN rest
                      ELSE [ok |-> TRUE, value |-> << v.value >> \o rest.value]

ListBody(db, page, per_page, now_year) ==
    LET offset      == Offset(page, per_page)
        total_items == query_count(db)
        movies      == query_offset_limit(db, offset, per_page)
        details     == ValidateAll(movies, now_year)
        total_pages == TotalPages(total_items, per_page)
    IN  IF movies = << >>
        THEN [kind |-> "NotFound", status_code |-> 404, detail |-> "No movies found."]
        ELSE IF ~ details.ok
        THEN [kind |-> "ValidationError", source |-> "record", errors |-> details.errors]
        ELSE [ kind        |-> "ok",
               movies      |-> details.value,
               prev_page   |-> PrevPage(page, per_page),
               next_page   |-> NextPage(page, per_page, total_pages),
               total_pages |-> total_pages,
               total_items |-> total_items ]

\* The whole list handler: the query parameters are bound and validated
\* (lines 36-37), then the body runs.  page and per_page are the handler's
\* arguments as bound.
get_movie_list(db, page_q, per_page_q, now_year) ==
    LET page     == QueryValue(page_q, PageDefault)
        per_page == QueryValue(per_page_q, PerPageDefault)
        errs     == QueryErrors(page, per_page)
    IN  IF errs # << >>
        THEN [ response |-> [kind |-> "ValidationError", source |-> "parameter", errors |-> errs],
               queries  |-> << >>,
               page     |-> page,
               per_page |-> per_page ]
        ELSE [ response |-> ListBody(db, page, per_page, now_year),
               queries  |-> << "count", "range" >>,
               page     |-> page,
               per_page |-> per_page ]

\* The whole detail handler.
get_movie_by_id(db, movie_id, now_year) ==
    LET movie == query_filter_first(db, movie_id)
    IN  [ response |->
              IF movie = None
              THEN [ kind |-> "NotFound", status_code |-> 404,
                     detail |-> "Movie with the given ID was not found." ]
              ELSE LET v == model_validate(movie[1], now_year)
                   IN  IF v.ok THEN [kind |-> "ok", movie |-> v.value]
                       ELSE [kind |-> "ValidationError", source |-> "record", errors |-> v.errors],
          queries |-> << "find_by_id" >> ]

(***************************************************************************)
(* State machine.                                                          *)
(***************************************************************************)
PageInputs == { None } \cup { << p >> : p \in 0 .. MaxPage }

PerPageInputs ==
    { None } \cup { << n >> : n \in {0, 1, 2, PerPageMax, PerPageMax + 1} }

MovieIdInputs == -1 .. (MaxStore + 2)

Init ==
    /\ store \in Stores
    /\ current_year = Year0
    /\ req = [op |-> "none"]
    /\ resp = [kind |-> "none"]
    /\ queries = << >>

GetMovieList ==
    \E page_q \in PageInputs, per_page_q \in PerPageInputs :
        LET r == get_movie_list(store, page_q, per_page_q, current_year)
        IN  /\ req' = [ op |-> "list", page_q |-> page_q, per_page_q |-> per_page_q,
                         page |-> r.page, per_page |-> r.per_page, at_year |-> current_year ]
            /\ resp' = r.response
            /\ queries' = r.queries
            /\ UNCHANGED <<store, current_year>>

GetMovieById ==
    \E movie_id \in MovieIdInputs :
        LET r == get_movie_by_id(store, movie_id, current_year)
        IN  /\ req' = [op |-> "detail", movie_id |-> movie_id, at_year |-> current_year]
            /\ resp' = r.response
            /\ queries' = r.queries
            /\ UNCHANGED <<store, current_year>>

\* datetime.now().year moves on between requests.
Tick ==
    /\ current_year < Year0 + MaxTicks
    /\ current_year' = current_year + 1
    /\ UNCHANGED <<store, req, resp, queries>>

Next == GetMovieList \/ GetMovieById \/ Tick

Spec == Init /\ [][Next]_vars

TypeOK ==
    /\ store \in Stores
    /\ current_year \in Year0 .. (Year0 + MaxTicks)
    /\ resp.kind \in {"none", "ok", "NotFound", "ValidationError"}
(***************************************************************************)
(* Definitions used to state the properties.                               *)
(***************************************************************************)
IsList == req.op = "list"

IsDetail == req.op = "detail"

ParamsValid == IsList /\ req.page >= 1 /\ req.per_page >= 1 /\ req.per_page <= 20

ListOk == IsList /\ resp.kind = "ok"

\* n = ceil(a / b), stated without division.
IsCeil(n, a, b) == n * b >= a /\ (n - 1) * b < a

DigitValue(c) == CHOOSE d \in 0 .. 9 : Digits[d + 1] = c

RECURSIVE StrToInt(_)
StrToInt(cs) ==
    IF Len(cs) = 1 THEN DigitValue(cs[1])
    ELSE 10 * StrToInt(SubSeq(cs, 1, Len(cs) - 1)) + DigitValue(cs[Len(cs)])

IsNumber(cs) == cs # << >> /\ \A i \in DOMAIN cs : \E d \in 0 .. 9 : Digits[d + 1] = cs[i]

\* A link is well formed when it reads <path>?page=<number>&per_page=<number>.
LinkSplit(link) == CHOOSE i \in DOMAIN link : link[i] = "&per_page="

LinkWellFormed(link) ==
    /\ Len(link) >= 4
    /\ link[1] = "/theater/movies/?page="
    /\ \E i \in DOMAIN link : link[i] = "&per_page="
    /\ IsNumber(SubSeq(link, 2, LinkSplit(link) - 1))
    /\ IsNumber(SubSeq(link, LinkSplit(link) + 1, Len(link)))

\* The (page, per_page) pair a client reads back from a link.
ParseLink(link) ==
    [ page     |-> StrToInt(SubSeq(link, 2, LinkSplit(link) - 1)),
      per_page |-> StrToInt(SubSeq(link, LinkSplit(link) + 1, Len(link))) ]

Encodes(link, page, per_page) ==
    LinkWellFormed(link) /\ ParseLink(link) = [page |-> page, per_page |-> per_page]

\* The positions of the store inside [offset, offset + per_page).
SlicePositions(page, per_page) ==
    { i \in 1 .. Len(store) : (page - 1) * per_page < i /\ i <= (page - 1) * per_page + per_page }

\* The stored row passes every check of the validator in the given year.
RowValid(m, year) ==
    /\ Len(m.name) <= 255 /\ Len(m.genre) <= 255 /\ Len(m.orig_title) <= 255
    /\ Len(m.status) <= 50 /\ Len(m.orig_lang) <= 50 /\ Len(m.country) <= 3
    /\ m.score >= 0 /\ m.budget >= 0 /\ m.revenue >= 0
    /\ m.date.year <= year + 1

\* C1: a successful list response reports total_items = the number of stored
\* records and total_pages = ceil(total_items / per_page), for page >= 1 and
\* per_page in [1,20].
C1_Totals ==
    ListOk =>
        /\ ParamsValid
        /\ resp.total_items = Len(store)
        /\ IsCeil(resp.total_pages, resp.total_items, req.per_page)

\* Three records in pages of two: total_pages = 2, not 1.
C1_Witness ==
    /\ ListOk /\ req.per_page = 2 /\ Len(store) = 3
    /\ resp.total_items = 3 /\ resp.total_pages = 2

\* C2: in a successful list response prev_page is present iff page > 1 and then
\* encodes (page - 1, per_page); next_page is present iff page < total_pages
\* and then encodes (page + 1, per_page).
C2_Links ==
    ListOk =>
        /\ (resp.prev_page # None) <=> (req.page > 1)
        /\ (resp.prev_page # None) => Encodes(resp.prev_page, req.page - 1, req.per_page)
        /\ (resp.next_page # None) <=> (req.page < resp.total_pages)
        /\ (resp.next_page # None) => Encodes(resp.next_page, req.page + 1, req.per_page)

\* A middle page: both links present.
C2_Witness ==
    /\ ListOk /\ req.page = 2 /\ req.per_page = 1 /\ Len(store) = 3
    /\ resp.prev_page # None /\ resp.next_page # None

\* The last page of several: prev_page present, next_page absent.
C2_WitnessLast ==
    /\ ListOk /\ req.page = 2 /\ req.per_page = 2 /\ Len(store) = 3
    /\ resp.prev_page # None /\ resp.next_page = None

\* C3: for valid page and per_page the list operation fails with NotFound
\* (404, "No movies found.") exactly when the slice [offset, offset+per_page)
\* is empty, i.e. the store is empty or the page is beyond the last page; a
\* successful response never carries an empty movies sequence.
C3_NotFoundIffEmptySlice ==
    ParamsValid =>
        /\ (resp.kind = "NotFound") <=> (SlicePositions(req.page, req.per_page) = {})
        /\ (SlicePositions(req.page, req.per_page) = {})
              <=> (store = << >> \/ \E n \in 0 .. Len(store) :
                                        IsCeil(n, Len(store), req.per_page) /\ req.page > n)
        /\ resp.kind = "NotFound" => resp.status_code = 404 /\ resp.detail = "No movies found."
        /\ resp.kind = "ok" => resp.movies # << >>

\* A page beyond the last page of a non-empty store.
C3_Witness ==
    /\ ParamsValid /\ resp.kind = "NotFound" /\ store # << >>
    /\ req.page = 3 /\ req.per_page = 2

\* The empty store.
C3_WitnessEmpty == ParamsValid /\ resp.kind = "NotFound" /\ store = << >> /\ req.page = 1
\* The movies a client receives for one page: those of a successful response,
\* nothing when the call fails.
PageMovies(page, per_page, year) ==
    LET r == get_movie_list(store, << page >>, << per_page >>, year).response
    IN  IF r.kind = "ok" THEN r.movies ELSE << >>

RECURSIVE ConcatPages(_, _, _)
\* The concatenation of pages 1 .. n.
ConcatPages(n, per_page, year) ==
    IF n = 0 THEN << >>
    ELSE ConcatPages(n - 1, per_page, year) \o PageMovies(n, per_page, year)

\* The request just served is the last page of a walk over a non-empty store.
LastPageServed ==
    ParamsValid /\ store # << >> /\ IsCeil(req.page, Len(store), req.per_page)

AllRowsValid(year) == \A i \in DOMAIN store : RowValid(store[i], year)

C5_ParameterValidation ==
    IsList =>
        /\ req.page = (IF req.page_q = None THEN 1 ELSE req.page_q[1])
        /\ req.per_page = (IF req.per_page_q = None THEN 10 ELSE req.per_page_q[1])
        /\ (req.page < 1 \/ req.per_page < 1 \/ req.per_page > 20)
              => /\ resp.kind = "ValidationError" /\ resp.source = "parameter"
                 /\ queries = << >>
        /\ (req.page >= 1 /\ req.per_page >= 1 /\ req.per_page <= 20)
              => /\ ~ (resp.kind = "ValidationError" /\ resp.source = "parameter")
                 /\ queries = << "count", "range" >>

\* per_page = 21 is rejected with no query issued.
C5_Witness ==
    /\ IsList /\ req.page = 1 /\ req.per_page = 21
    /\ resp.kind = "ValidationError" /\ queries = << >>

\* page = 1, per_page = 20 is served.
C5_WitnessAccepted ==
    IsList /\ req.page = 1 /\ req.per_page = 20 /\ resp.kind = "ok" /\ queries # << >>

\* Both parameters omitted.
C5_WitnessDefaults ==
    IsList /\ req.page_q = None /\ req.per_page_q = None /\ resp.kind = "ok"

\* The positions of the rows with the identifier asked for.
DetailRows == { i \in DOMAIN store : store[i].id = req.movie_id }

DetailNotFound ==
    /\ resp.kind = "NotFound" /\ resp.status_code = 404
    /\ resp.detail = "Movie with the given ID was not found."

DetailReturnsRow ==
    /\ resp.kind = "ok" /\ resp.movie.id = req.movie_id
    /\ \E i \in DetailRows : resp.movie = store[i]

DetailAsStated ==
    /\ DetailRows # {} => DetailReturnsRow
    /\ DetailRows = {} => DetailNotFound

DetailAsAmended ==
    /\ (\E i \in DetailRows : RowValid(store[i], req.at_year)) => DetailReturnsRow
    /\ (DetailRows # {} /\ \A i \in DetailRows : ~ RowValid(store[i], req.at_year))
          => resp.kind = "ValidationError" /\ resp.source = "record"
    /\ DetailRows = {} => DetailNotFound
    /\ resp.kind = "ok" => resp.movie.id = req.movie_id

\* C6 as stated: the detail operation returns the record with the identifier
\* asked for whenever the store holds one, fails with NotFound otherwise, and
\* leaves the store as it was.
C6_Original == [][ IsDetail' => (store' = store /\ DetailAsStated') ]_vars

\* C6 as amended: it returns the record when the stored record passes the
\* validator, fails with ValidationError when the stored record does not, and
\* with NotFound when no record has the identifier; it never returns another
\* identifier and leaves the store as it was.
C6_Detail == [][ IsDetail' => (store' = store /\ DetailAsAmended') ]_vars

\* The second row of the store is found by its identifier, 3.
C6_Witness ==
    /\ IsDetail /\ resp.kind = "ok" /\ req.movie_id = 3 /\ Len(store) >= 2
    /\ store[1].id = 2 /\ resp.movie = store[2]

C6_WitnessNotFound == IsDetail /\ DetailNotFound /\ store # << >>

\* All fields of the row but the named one are within their constraints.
OthersValid(m, field, year) ==
    RowValid([m EXCEPT ![field] = ExampleMovie[field]], year)

\* C7: with all other fields valid, the validator fails iff the release year
\* is greater than the year at validation time plus one.
C7_ReleaseDateRule ==
    IsDetail => \A i \in DetailRows :
        OthersValid(store[i], "date", req.at_year) =>
            /\ (resp.kind = "ValidationError") <=> (store[i].date.year > req.at_year + 1)
            /\ resp.kind = "ValidationError" => resp.errors = << "date" >>
            /\ store[i].date.year = req.at_year + 1 => resp.kind = "ok"
            /\ store[i].date.year = req.at_year + 2 => resp.kind = "ValidationError"

\* current_year + 2 is rejected.
C7_Witness ==
    /\ IsDetail /\ resp.kind = "ValidationError" /\ resp.errors = << "date" >>
    /\ \E i \in DetailRows : store[i].date.year = req.at_year + 2

\* current_year + 1 is accepted.
C7_WitnessAccepted ==
    /\ IsDetail /\ resp.kind = "ok"
    /\ \E i \in DetailRows : store[i].date.year = req.at_year + 1

\* C8 as stated: a record whose country does not have exactly 3 characters
\* fails validation.
C8_Original ==
    IsDetail => \A i \in DetailRows :
        Len(store[i].country) # 3 => resp.kind = "ValidationError"

\* C8 as amended: with all other fields valid, a record fails validation iff
\* its country has more than 3 characters.
C8_CountryLength ==
    IsDetail => \A i \in DetailRows :
        OthersValid(store[i], "country", req.at_year) =>
            /\ (resp.kind = "ValidationError") <=> (Len(store[i].country) > 3)
            /\ resp.kind = "ValidationError" => resp.errors = << "country" >>

\* Four characters are rejected.
C8_Witness ==
    /\ IsDetail /\ resp.kind = "ValidationError" /\ resp.errors = << "country" >>
    /\ \E i \in DetailRows : Len(store[i].country) = 4

\* Two characters are accepted.
C8_WitnessShort ==
    IsDetail /\ resp.kind = "ok" /\ Len(resp.movie.country) = 2

\* The rows a request reads from the store.
FetchedRows ==
    IF IsList THEN [k \in 1 .. Cardinality(SlicePositions(req.page, req.per_page))
                        |-> store[(req.page - 1) * req.per_page + k]]
    ELSE IF DetailRows = {} THEN << >>
    ELSE << store[CHOOSE i \in DetailRows : \A j \in DetailRows : i <= j] >>

\* The response is a complete result: every row read, each validated.
CompleteResult ==
    /\ resp.kind = "ok"
    /\ FetchedRows # << >>
    /\ \A k \in DOMAIN FetchedRows : RowValid(FetchedRows[k], req.at_year)
    /\ IF IsList THEN resp.movies = FetchedRows ELSE resp.movie = FetchedRows[1]

ParameterError ==
    /\ resp.kind = "ValidationError" /\ resp.source = "parameter"
    /\ queries = << >>
    /\ IsList /\ ~ ParamsValid

RecordError ==
    /\ resp.kind = "ValidationError" /\ resp.source = "record"
    /\ queries # << >>
    /\ \E k \in DOMAIN FetchedRows : ~ RowValid(FetchedRows[k], req.at_year)
    /\ DOMAIN resp = {"kind", "source", "errors"}

\* C9 as stated: every operation either succeeds with a complete validated
\* result, or fails with a ValidationError for a caller parameter raised
\* before any store access, or with NotFound.
C9_Original ==
    (IsList \/ IsDetail) =>
        CompleteResult \/ ParameterError \/ (resp.kind = "NotFound" /\ FetchedRows = << >>)

\* C9 as amended: ... or fails with a ValidationError for a stored record that
\* does not pass the validator, raised after the store was read, with nothing
\* of the result returned.
C9_Outcomes ==
    (IsList \/ IsDetail) =>
        \/ CompleteResult
        \/ ParameterError
        \/ (resp.kind = "NotFound" /\ FetchedRows = << >>)
        \/ RecordError

\* A page whose second row fails validation: nothing of the page is returned.
C9_Witness ==
    /\ IsList /\ RecordError /\ Len(FetchedRows) = 2
    /\ RowValid(FetchedRows[1], req.at_year) /\ ~ RowValid(FetchedRows[2], req.at_year)

\* The outcome of requesting the page a link points to, against the same store.
Follow(link) ==
    get_movie_list(store, << ParseLink(link).page >>, << ParseLink(link).per_page >>,
                   current_year).response

LinkedPageExists(link) ==
    /\ LinkWellFormed(link)
    /\ ParseLink(link).page >= 1 /\ ParseLink(link).page <= resp.total_pages
    /\ Follow(link).kind # "NotFound"
    /\ Follow(link).kind = "ValidationError" => Follow(link).source = "record"

====
